---- MODULE Spec2Model ----
(***************************************************************************)
(* Otter Assign: the assignment configuration (otter/assign/assignment.py) *)
(* and the miscellaneous cell generators (otter/assign/cell_generators.py).*)
(*                                                                         *)
(* Text is a sequence of tokens: the token NL is one line break, every     *)
(* other token is a run of characters without a line break.  Python's      *)
(* str + str is \o, "" is << >>.                                           *)
(***************************************************************************)
EXTENDS Integers, Sequences, FiniteSets, TLC

VARIABLES cells, lastExport, lastClose, asg, last, nUpdates

vars == <<cells, lastExport, lastClose, asg, last, nUpdates>>

cellVars == <<cells, lastExport, lastClose>>

asgVars == <<asg, last, nUpdates>>

(***************************************************************************)
(* Bounds                                                                  *)
(***************************************************************************)
\* the notebook under construction holds at most this many cells
MaxCells == 4

\* update() is called at most this many times on one Assignment
MaxUpdates == 2

(***************************************************************************)
(* Text                                                                    *)
(***************************************************************************)
NL == "\n"

RECURSIVE SplitFrom(_, _, _)
\* re.split("\r?\n", text): cur is the line being collected, acc the lines so far
SplitFrom(text, cur, acc) ==
    IF text = << >> THEN Append(acc, cur)
    ELSE IF Head(text) = NL THEN SplitFrom(Tail(text), << >>, Append(acc, cur))
         ELSE SplitFrom(Tail(text), Append(cur, Head(text)), acc)

RECURSIVE Join(_, _)
\* sep.join(parts)
Join(parts, sep) ==
    IF parts = << >> THEN << >>
    ELSE IF Len(parts) = 1 THEN parts[1]
         ELSE parts[1] \o sep \o Join(Tail(parts), sep)

\* otter.assign.utils.get_source on a cell whose source is a str: the lines of
\* the source, without their line breaks
get_source(cell) == SplitFrom(cell.source, << >>, << >>)

(***************************************************************************)
(* Cells                                                                   *)
(***************************************************************************)
\* nbformat.v4.new_markdown_cell(source): metadata is empty, so not locked
new_markdown_cell(source) ==
    [cell_type |-> "markdown", source |-> source, locked |-> FALSE]

\* nbformat.v4.new_code_cell(source)
new_code_cell(source) ==
    [cell_type |-> "code", source |-> source, locked |-> FALSE]

\* otter.assign.utils.lock: the cell can no longer be edited or deleted
lock(cell) == [cell EXCEPT !.locked = TRUE]

gen_init_cell ==
    lock(new_code_cell(<<"# Initialize Otter", NL, "import otter", NL,
                         "grader = otter.Notebook()">>))

gen_markdown_response_cell ==
    new_markdown_cell(<<"_Type your answer here, replacing this text._">>)

SubmissionParagraph ==
    <<"## Submission", NL, NL,
      "Make sure you have run all cells in your notebook in order before     running the cell below, so that all images/graphs appear in the output. The cell below will generate     a zipfile for you to submit. **Please save before exporting!**">>

ExportComment ==
    <<"# Save your notebook first, then run this cell to export your submission.">>

\* the append without its test: the separator follows the paragraph even when
\* there is no instruction text
InstructionsSourceAlways(instruction_text) ==
    SubmissionParagraph \o <<NL, NL>> \o instruction_text

\* instructions.source after the optional append
InstructionsSource(instruction_text) ==
    IF instruction_text # << >>
    THEN SubmissionParagraph \o <<NL, NL>> \o instruction_text
    ELSE SubmissionParagraph

\* source_lines of the export cell
ExportSourceLines(pdf, filtering) ==
    IF filtering /\ pdf THEN <<ExportComment, <<"grader.export()">>>>
    ELSE IF ~filtering THEN <<ExportComment, <<"grader.export(filtering=False)">>>>
         ELSE <<ExportComment, <<"grader.export(pdf=False)">>>>

gen_export_cells(instruction_text, pdf, filtering) ==
    LET instructions ==
            [new_markdown_cell(<< >>) EXCEPT
                !.source = InstructionsSource(instruction_text)]
        export ==
            [new_code_cell(<< >>) EXCEPT
                !.source = Join(ExportSourceLines(pdf, filtering), <<NL>>)]
    IN  <<lock(instructions), lock(export), new_markdown_cell(<<" ">>)>>

gen_check_all_cell ==
    LET instructions ==
            [new_markdown_cell(<< >>) EXCEPT
                !.source = <<"---", NL, NL,
                             "To double-check your work, the cell below will rerun all of the autograder tests.">>]
        check_all == new_code_cell(<<"grader.check_all()">>)
    IN  <<lock(instructions), lock(check_all)>>

Marker == "<!-- END QUESTION -->"

gen_close_export_cell == lock(new_markdown_cell(<<Marker>>))

\* the source add_close_export_to_cell writes into the copy
CloseExportSource(cell) ==
    LET source == <<<<Marker, NL>>, <<NL>>>> \o get_source(cell)
    IN  Join(source, <<NL>>)

\* no copy: the function writes to the object it was handed
CopyTargetAlias(heap, ref) == ref

\* copy.deepcopy(cell): the index in the notebook heap of the object the
\* function goes on to write to; a fresh object, one past the last one
CopyTarget(heap, ref) == Len(heap) + 1

(***************************************************************************)
(* The notebook heap: cells[i] is the cell object with identity i.         *)
(***************************************************************************)
NoExport == [called |-> FALSE]

NoClose == [called |-> FALSE]

\* free-form instruction texts handed to gen_export_cells
InstructionTexts == {<< >>, <<"Submit on Gradescope.">>}

InitCells ==
    /\ cells = << >>
    /\ lastExport = NoExport
    /\ lastClose = NoClose

GenInitCell ==
    /\ Len(cells) < MaxCells
    /\ cells' = Append(cells, gen_init_cell)
    /\ UNCHANGED <<lastExport, lastClose>>

GenMarkdownResponseCell ==
    /\ Len(cells) < MaxCells
    /\ cells' = Append(cells, gen_markdown_response_cell)
    /\ UNCHANGED <<lastExport, lastClose>>

GenExportCells ==
    \E text \in InstructionTexts, pdf \in BOOLEAN, filtering \in BOOLEAN :
        LET out == gen_export_cells(text, pdf, filtering)
        IN  /\ Len(cells) + Len(out) <= MaxCells
            /\ cells' = cells \o out
            /\ lastExport' = [called |-> TRUE, instruction_text |-> text,
                              pdf |-> pdf, filtering |-> filtering,
                              returned |-> out]
            /\ UNCHANGED lastClose

GenCheckAllCell ==
    /\ Len(cells) + 2 <= MaxCells
    /\ cells' = cells \o gen_check_all_cell
    /\ UNCHANGED <<lastExport, lastClose>>

GenCloseExportCell ==
    /\ Len(cells) < MaxCells
    /\ cells' = Append(cells, gen_close_export_cell)
    /\ UNCHANGED <<lastExport, lastClose>>

\* add_close_export_to_cell(cells[ref]); before holds the heap at the call
AddCloseExportToCell ==
    \E ref \in 1..Len(cells) :
        LET target == CopyTarget(cells, ref)
            copied == IF target = ref THEN cells ELSE Append(cells, cells[ref])
        IN  /\ Len(cells) < MaxCells
            /\ cells' = [copied EXCEPT
                            ![target].source = CloseExportSource(copied[target])]
            /\ lastClose' = [called |-> TRUE, arg |-> ref, returned |-> target,
                             before |-> cells]
            /\ UNCHANGED lastExport

NextCells ==
    /\ \/ GenInitCell
       \/ GenMarkdownResponseCell
       \/ GenExportCells
       \/ GenCheckAllCell
       \/ GenCloseExportCell
       \/ AddCloseExportToCell
    /\ UNCHANGED asgVars

(***************************************************************************)
(* Python values.  An Optional value is None or Some(v); a key of a raw    *)
(* mapping is Absent or Given(v).                                          *)
(***************************************************************************)
None == << >>

Some(v) == <<v>>

Absent == << >>

Given(v) == <<v>>

\* bool(x) for an Optional[str]: None and "" are falsy
TruthyStr(opt) == opt # None /\ opt[1] # ""

\* bool(x) for an Optional[dict]: None and {} are falsy
TruthyDict(opt) == opt # None /\ opt[1] # << >>

RECURSIVE DictItems(_)
\* the items of str(dict): 'k': 'v' separated by ", "; a dict is the sequence
\* of its (key, value) pairs in insertion order
DictItems(d) ==
    IF d = << >> THEN << >>
    ELSE <<"'", d[1][1], "': '", d[1][2], "'">>
         \o (IF Len(d) > 1 THEN <<", ">> ELSE << >>) \o DictItems(Tail(d))

\* str(dict)
StrDict(d) == <<"{">> \o DictItems(d) \o <<"}">>

(***************************************************************************)
(* The configuration tree                                                  *)
(***************************************************************************)
\* AutograderConfig(): every key at its default
AutograderConfig ==
    [lang |-> "python", serialized_variables |-> None,
     assignment_name |-> None, points_possible |-> None]

\* Assignment.generate is a bool or an AutograderConfig
GenBool(b) == [tag |-> "bool", b |-> b, cfg |-> AutograderConfig]

GenConfig(cfg) == [tag |-> "config", b |-> TRUE, cfg |-> cfg]

ExportCellValue == [pdf |-> TRUE, filtering |-> TRUE]

SeedValue == [variable |-> None, autograder_value |-> None]

TestsValue == [files |-> FALSE, ok_format |-> TRUE]

\* the keys of Assignment at their defaults, and the plain attribute lang
AssignmentDefaults ==
    [constructed |-> TRUE,
     name |-> None,
     export_cell |-> ExportCellValue,
     seed |-> None,
     generate |-> GenBool(FALSE),
     variables |-> None,
     tests |-> TestsValue,
     runs_on |-> "default",
     lang |-> None]

RunsOnChoices == {"default", "colab", "jupyterlite"}

\* runs_on without its validator
RunsOnValidAny(v) == TRUE

\* validator=fica.validators.choice([...]) of runs_on
RunsOnValid(v) == v \in RunsOnChoices

(***************************************************************************)
(* Raw mappings                                                            *)
(***************************************************************************)
EmptyRaw ==
    [name |-> Absent, export_cell |-> Absent, seed |-> Absent,
     generate |-> Absent, variables |-> Absent, tests |-> Absent,
     runs_on |-> Absent]

NoSubkeys(container) == [k \in DOMAIN container |-> Absent]

RawBool(b) == [tag |-> "bool", b |-> b, map |-> NoSubkeys(AutograderConfig)]

RawMap(m) == [tag |-> "map", b |-> TRUE, map |-> m]

NameValues == {None, Some(""), Some("hw1")}

VariablesValues == {Some(<< >>), Some(<< <<"x", "int">> >>)}

ExportCellMaps ==
    {[NoSubkeys(ExportCellValue) EXCEPT !.pdf = Given(FALSE)],
     [NoSubkeys(ExportCellValue) EXCEPT !.filtering = Given(FALSE)]}

SeedMaps ==
    {[NoSubkeys(SeedValue) EXCEPT !.variable = Given(Some("rng"))],
     [NoSubkeys(SeedValue) EXCEPT !.autograder_value = Given(Some(42))]}

TestsMaps ==
    {[NoSubkeys(TestsValue) EXCEPT !.files = Given(TRUE)],
     [NoSubkeys(TestsValue) EXCEPT !.ok_format = Given(FALSE)]}

GenerateValues ==
    {RawBool(TRUE), RawBool(FALSE),
     RawMap([NoSubkeys(AutograderConfig) EXCEPT !.points_possible = Given(Some(10))])}

RunsOnValues == {"colab", "nope"}

\* mappings naming at most one key besides runs_on
OneKeyRaws ==
    {EmptyRaw}
    \cup {[EmptyRaw EXCEPT !.name = Given(v)] : v \in NameValues}
    \cup {[EmptyRaw EXCEPT !.variables = Given(v)] : v \in VariablesValues}
    \cup {[EmptyRaw EXCEPT !.export_cell = Given(m)] : m \in ExportCellMaps}
    \cup {[EmptyRaw EXCEPT !.seed = Given(m)] : m \in SeedMaps}
    \cup {[EmptyRaw EXCEPT !.tests = Given(m)] : m \in TestsMaps}
    \cup {[EmptyRaw EXCEPT !.generate = Given(v)] : v \in GenerateValues}

RawConfigs ==
    OneKeyRaws
    \cup {[r EXCEPT !.runs_on = Given(v)] : r \in OneKeyRaws, v \in RunsOnValues}

(***************************************************************************)
(* fica.Config: merging a raw mapping                                      *)
(***************************************************************************)
\* a nested config after merging the subkeys a mapping names onto base
MergeSubkeys(base, m) ==
    [k \in DOMAIN base |-> IF m[k] = Absent THEN base[k] ELSE m[k][1]]

\* the generate key: a bool is stored as it is; a mapping updates the config
\* in place when there is one and builds AutograderConfig(mapping) otherwise
MergeGenerate(cur, v) ==
    IF v.tag = "bool" THEN GenBool(v.b)
    ELSE IF cur.tag = "config" THEN GenConfig(MergeSubkeys(cur.cfg, v.map))
         ELSE GenConfig(MergeSubkeys(AutograderConfig, v.map))

\* the keys that raw names
GivenKeys(raw) == {k \in DOMAIN raw : raw[k] # Absent}

\* the keys of raw whose value passes validation
ValidKeys(raw) ==
    {k \in GivenKeys(raw) : k = "runs_on" => RunsOnValid(raw.runs_on[1])}

\* a with the keys ks of raw merged in
Merge(a, raw, ks) ==
    [a EXCEPT
        !.name = IF "name" \in ks THEN raw.name[1] ELSE @,
        !.variables = IF "variables" \in ks THEN raw.variables[1] ELSE @,
        !.runs_on = IF "runs_on" \in ks THEN raw.runs_on[1] ELSE @,
        !.export_cell = IF "export_cell" \in ks
                        THEN MergeSubkeys(@, raw.export_cell[1]) ELSE @,
        !.tests = IF "tests" \in ks THEN MergeSubkeys(@, raw.tests[1]) ELSE @,
        !.seed = IF "seed" \in ks
                 THEN Some(MergeSubkeys(IF @ = None THEN SeedValue ELSE @[1],
                                        raw.seed[1]))
                 ELSE @,
        !.generate = IF "generate" \in ks THEN MergeGenerate(@, raw.generate[1])
                     ELSE @]

\* the states super().update(raw) can leave behind: every key merged when the
\* mapping is valid; when a key is rejected, the valid keys that came before
\* it in the mapping, which is any subset of them
MergeOutcomes(a, raw) ==
    IF ValidKeys(raw) = GivenKeys(raw)
    THEN {[state |-> Merge(a, raw, GivenKeys(raw)), raised |-> FALSE]}
    ELSE {[state |-> Merge(a, raw, ks), raised |-> TRUE] :
            ks \in SUBSET ValidKeys(raw)}

(***************************************************************************)
(* Assignment                                                              *)
(***************************************************************************)
\* "if self.generate:" in place of "is True": a config object is truthy too
CoerceGenerateTruthy(g) ==
    IF g.tag = "config" \/ g.b THEN GenConfig(AutograderConfig) ELSE g

\* if self.generate is True: self.generate = AutograderConfig()
CoerceGenerate(g) ==
    IF g.tag = "bool" /\ g.b THEN GenConfig(AutograderConfig) ELSE g

is_r(a) == a.lang = Some("r")

\* generate_enabled without the comparison to False
generate_enabled_always(g) == TRUE

generate_enabled(g) == ~(g.tag = "bool" /\ ~g.b)

\* get_otter_config without the write of serialized_variables
ExportedConfigNoVariables(a, otter_config) ==
    [otter_config EXCEPT
        !.lang = IF is_r(a) THEN "r" ELSE @,
        !.assignment_name = IF TruthyStr(a.name) THEN a.name ELSE @]

\* otter_config after get_otter_config has written lang, serialized_variables
\* and assignment_name into it
ExportedConfig(a, otter_config) ==
    [otter_config EXCEPT
        !.lang = IF is_r(a) THEN "r" ELSE @,
        !.serialized_variables =
            IF TruthyDict(a.variables) THEN Some(StrDict(a.variables[1])) ELSE @,
        !.assignment_name = IF TruthyStr(a.name) THEN a.name ELSE @]

\* otter_config.get_user_config(): the mapping of the config's keys to their
\* values
get_user_config(otter_config) == [k \in DOMAIN otter_config |-> otter_config[k]]

NoOp == [op |-> "none", raw |-> EmptyRaw, result |-> "ok", returned |-> None]

InitAssign ==
    /\ asg = [constructed |-> FALSE]
    /\ last = NoOp
    /\ nUpdates = 0

Init == InitCells /\ InitAssign

\* Assignment(user_config): there is no object when the constructor raises
Construct ==
    \E raw \in RawConfigs :
        /\ ~asg.constructed
        /\ IF ValidKeys(raw) = GivenKeys(raw)
           THEN /\ asg' = [Merge(AssignmentDefaults, raw, GivenKeys(raw)) EXCEPT
                              !.generate = CoerceGenerate(@)]
                /\ last' = [NoOp EXCEPT !.op = "construct", !.raw = raw]
           ELSE /\ asg' = asg
                /\ last' = [NoOp EXCEPT !.op = "construct", !.raw = raw,
                                        !.result = "ValueError"]
        /\ UNCHANGED nUpdates

\* Assignment.update(user_config): the coercion runs only when super().update
\* returns
Update ==
    \E raw \in RawConfigs :
        /\ asg.constructed
        /\ nUpdates < MaxUpdates
        /\ \E out \in MergeOutcomes(asg, raw) :
              IF out.raised
              THEN /\ asg' = out.state
                   /\ last' = [NoOp EXCEPT !.op = "update", !.raw = raw,
                                           !.result = "ValueError"]
              ELSE /\ asg' = [out.state EXCEPT !.generate = CoerceGenerate(@)]
                   /\ last' = [NoOp EXCEPT !.op = "update", !.raw = raw]
        /\ nUpdates' = nUpdates + 1

\* the pipeline sets the language of the assignment
SetLang ==
    \E l \in {"python", "r"} :
        /\ asg.constructed
        /\ asg.lang # Some(l)
        /\ asg' = [asg EXCEPT !.lang = Some(l)]
        /\ last' = [NoOp EXCEPT !.op = "set_lang"]
        /\ UNCHANGED nUpdates

\* Assignment.get_otter_config(): a bool has no attributes to set or call
GetOtterConfig ==
    /\ asg.constructed
    /\ IF ~generate_enabled(asg.generate)
       THEN /\ asg' = asg
            /\ last' = [NoOp EXCEPT !.op = "get_otter_config",
                                    !.result = "ValueError"]
       ELSE IF asg.generate.tag = "bool"
       THEN /\ asg' = asg
            /\ last' = [NoOp EXCEPT !.op = "get_otter_config",
                                    !.result = "AttributeError"]
       ELSE LET otter_config == ExportedConfig(asg, asg.generate.cfg)
            IN  /\ asg' = [asg EXCEPT !.generate = GenConfig(otter_config)]
                /\ last' = [NoOp EXCEPT !.op = "get_otter_config",
                                        !.returned =
                                            Some(get_user_config(otter_config))]
    /\ UNCHANGED nUpdates

Next ==
    /\ \/ Construct
       \/ Update
       \/ SetLang
       \/ GetOtterConfig
    /\ UNCHANGED cellVars

Spec == Init /\ [][Next]_vars

SpecCells == Init /\ [][NextCells]_vars

(***************************************************************************)
(* Properties of Assignment                                                *)
(***************************************************************************)
IsBoolTrue(g) == g.tag = "bool" /\ g.b

IsBoolFalse(g) == g.tag = "bool" /\ ~g.b

\* C1: after construction and after every update(), generate is never the
\* boolean True; constructing with generate=True leaves a config object and
\* constructing with generate=False leaves the boolean False.
C1_GenerateNeverTrue ==
    asg.constructed =>
        /\ ~IsBoolTrue(asg.generate)
        /\ (last.op = "construct" /\ last.raw.generate = Given(RawBool(TRUE)))
              => asg.generate.tag = "config"
        /\ (last.op = "construct" /\ last.raw.generate = Given(RawBool(FALSE)))
              => IsBoolFalse(asg.generate)

\* C2: get_otter_config() raises the configuration-state error (ValueError)
\* exactly when generate is the boolean False at the call; when it raises it
\* returns no mapping and leaves every field of the Assignment as it was.
C2_ExportDisabledError ==
    [][last'.op = "get_otter_config" =>
          /\ (last'.result = "ValueError") <=> IsBoolFalse(asg.generate)
          /\ last'.result # "ok" => (last'.returned = None /\ asg' = asg)]_vars

\* C2 happens: get_otter_config() was called on an Assignment constructed
\* with generate disabled, after an update that left it disabled, and raised
C2_Witness ==
    /\ last.op = "get_otter_config"
    /\ last.result = "ValueError"
    /\ nUpdates > 0
    /\ IsBoolFalse(asg.generate)

TopLevelLeaves == {"name", "variables", "runs_on"}

SubConfigs == {"export_cell", "seed", "tests", "generate"}

\* the nested config under key s when there is one
SubConfig(a, s) ==
    IF s = "generate"
    THEN (IF a.generate.tag = "config" THEN Some(a.generate.cfg) ELSE None)
    ELSE IF s = "seed" THEN a.seed ELSE Some(a[s])

\* raw gives key s a mapping that names subkey k
NamesSubkey(raw, s, k) ==
    /\ raw[s] # Absent
    /\ IF s = "generate" THEN raw[s][1].map[k] # Absent ELSE raw[s][1][k] # Absent

\* raw gives key s a value that is not a mapping
GivesScalar(raw, s) ==
    s = "generate" /\ raw[s] # Absent /\ raw[s][1].tag = "bool"

\* the leaf k of the nested config s is the same in a and b
SameSubkey(a, b, s, k) ==
    /\ SubConfig(b, s) # None
    /\ SubConfig(b, s)[1][k] = SubConfig(a, s)[1][k]

\* C6, as stated: an update(rawConfig) leaves every leaf that rawConfig does
\* not mention, top-level or nested in export_cell, seed, tests or generate,
\* at the value it had before the update.
C6_UnmentionedLeavesKept ==
    [][last'.op = "update" =>
          /\ \A k \in TopLevelLeaves :
                last'.raw[k] = Absent => asg'[k] = asg[k]
          /\ \A s \in SubConfigs :
                SubConfig(asg, s) # None =>
                    \A k \in DOMAIN SubConfig(asg, s)[1] :
                        ~NamesSubkey(last'.raw, s, k) => SameSubkey(asg, asg', s, k)]_vars

\* C6, amended: an update(rawConfig) leaves every leaf that rawConfig does not
\* mention at the value it had before the update, except the leaves of a
\* nested config for whose key rawConfig gives a value that is not a mapping
\* (generate: true, generate: false), which replaces the nested config.
C6_UnmentionedLeavesKeptUnlessReplaced ==
    [][last'.op = "update" =>
          /\ \A k \in TopLevelLeaves :
                last'.raw[k] = Absent => asg'[k] = asg[k]
          /\ \A s \in SubConfigs :
                (SubConfig(asg, s) # None /\ ~GivesScalar(last'.raw, s)) =>
                    \A k \in DOMAIN SubConfig(asg, s)[1] :
                        ~NamesSubkey(last'.raw, s, k) => SameSubkey(asg, asg', s, k)]_vars

\* C6 happens: the second of two updates named only export_cell.filtering and
\* export_cell.pdf still holds the value set before it
C6_Witness ==
    /\ last.op = "update"
    /\ last.result = "ok"
    /\ nUpdates = 2
    /\ NamesSubkey(last.raw, "export_cell", "filtering")
    /\ ~NamesSubkey(last.raw, "export_cell", "pdf")
    /\ asg.export_cell = [pdf |-> FALSE, filtering |-> FALSE]

\* C7: runs_on is always one of default, colab, jupyterlite; a construction
\* or update that supplies another value fails with a validation error and
\* leaves runs_on as it was; an update that supplies colab succeeds and
\* runs_on is colab after it.
C7_RunsOnEnum ==
    [][/\ asg'.constructed => asg'.runs_on \in {"default", "colab", "jupyterlite"}
       /\ (/\ last'.op \in {"construct", "update"}
           /\ last'.raw.runs_on # Absent
           /\ last'.raw.runs_on[1] \notin {"default", "colab", "jupyterlite"})
             => /\ last'.result = "ValueError"
                /\ asg'.constructed = asg.constructed
                /\ asg.constructed => asg'.runs_on = asg.runs_on
       /\ (last'.op = "update" /\ last'.raw.runs_on = Given("colab"))
             => /\ last'.result = "ok"
                /\ asg'.runs_on = "colab"]_vars

\* C7 happens: an update supplying an unknown runs_on was rejected on an
\* Assignment whose runs_on an earlier update had set to colab
C7_Witness ==
    /\ last.op = "update"
    /\ last.result = "ValueError"
    /\ last.raw.runs_on = Given("nope")
    /\ asg.runs_on = "colab"

\* C9: when get_otter_config() succeeds, the mapping it returns has lang "r"
\* if the assignment language is R, serialized_variables equal to
\* str(variables) if variables is a non-empty dict, and assignment_name equal
\* to name if name is set (a non-empty string, as the code tests it).
C9_ExportReflectsState ==
    (last.op = "get_otter_config" /\ last.result = "ok") =>
        LET m == last.returned[1]
        IN  /\ last.returned # None
            /\ asg.lang = Some("r") => m.lang = "r"
            /\ (asg.variables # None /\ asg.variables[1] # << >>)
                  => m.serialized_variables = Some(StrDict(asg.variables[1]))
            /\ (asg.name # None /\ asg.name[1] # "")
                  => m.assignment_name = asg.name

\* C9 happens: a call succeeded on an R assignment with variables and a name,
\* after updates
C9_Witness ==
    /\ last.op = "get_otter_config"
    /\ last.result = "ok"
    /\ nUpdates > 0
    /\ asg.lang = Some("r")
    /\ asg.variables = Some(<< <<"x", "int">> >>)
    /\ asg.name = Some("hw1")

(***************************************************************************)
(* Properties of the cell generators                                       *)
(***************************************************************************)
\* the export call the table of C3 gives for (pdf, filtering)
TableCall(pdf, filtering) ==
    IF pdf /\ filtering THEN <<"grader.export()">>
    ELSE IF pdf THEN <<"grader.export(filtering=False)">>
         ELSE <<"grader.export(pdf=False)">>

\* C3: the code cell of gen_export_cells contains grader.export() for
\* (pdf, filtering) = (T, T), grader.export(filtering=False) for (T, F) and
\* grader.export(pdf=False) for (F, T) and for (F, F).
C3_ExportCallTable ==
    lastExport.called =>
        LET lines == get_source(lastExport.returned[2])
        IN  \E i \in 1..Len(lines) :
                lines[i] = TableCall(lastExport.pdf, lastExport.filtering)

\* C4: the cell add_close_export_to_cell returns for a markdown cell has as
\* source the marker, one blank line, and the source of the cell it was given.
C4_CloseExportSource ==
    (lastClose.called /\ lastClose.before[lastClose.arg].cell_type = "markdown") =>
        cells[lastClose.returned].source =
            <<Marker, NL, NL>> \o lastClose.before[lastClose.arg].source

\* C5: add_close_export_to_cell returns a cell distinct from the one it was
\* given and leaves the cell it was given, like every other cell, as it was.
C5_InputUnmodified ==
    lastClose.called =>
        /\ lastClose.returned # lastClose.arg
        /\ \A i \in 1..Len(lastClose.before) : cells[i] = lastClose.before[i]

\* C5 happens: the function was called again on a cell it had been called on
C5_Witness ==
    /\ lastClose.called
    /\ \E i \in 1..Len(lastClose.before) :
          /\ i # lastClose.arg
          /\ cells[i] = cells[lastClose.returned]

ExportCalls ==
    {<<"grader.export()">>, <<"grader.export(filtering=False)">>,
     <<"grader.export(pdf=False)">>}

\* C10: gen_export_cells returns exactly three cells: a locked markdown cell
\* with the submission paragraph, followed by a blank line and the
\* instruction text only when the text is not empty; a locked code cell of
\* the comment line and exactly one export call; an unlocked markdown cell
\* whose source is a single space.
C10_ExportCellsShape ==
    lastExport.called =>
        LET out == lastExport.returned
            text == lastExport.instruction_text
        IN  /\ Len(out) = 3
            /\ out[1].cell_type = "markdown" /\ out[1].locked
            /\ out[1].source =
                  IF text = << >> THEN SubmissionParagraph
                  ELSE SubmissionParagraph \o <<NL, NL>> \o text
            /\ out[2].cell_type = "code" /\ out[2].locked
            /\ Len(get_source(out[2])) = 2
            /\ get_source(out[2])[1] = ExportComment
            /\ get_source(out[2])[2] \in ExportCalls
            /\ out[3] = [cell_type |-> "markdown", source |-> <<" ">>,
                         locked |-> FALSE]

\* C10 happens: export cells were generated with instruction text, no PDF and
\* no filtering
C10_Witness ==
    /\ lastExport.called
    /\ lastExport.instruction_text # << >>
    /\ ~lastExport.pdf
    /\ ~lastExport.filtering

====
